---- MODULE Spec2Model ----
(***************************************************************************)
(* A model of the task manager's service and repository layers, of its     *)
(* HTTP handlers and of the start and the shutdown of its process:         *)
(*   internal/service/task_service.go   (Task.Create/GetByID/List/Update/  *)
(*                                        Delete)                          *)
(*   internal/entities/task.go          (postgres.Task: the SQL statements)*)
(*   internal/cache/cache.go            (the Cache interface)              *)
(*   internal/http/handler_task.go      (Handler.Task*: the requests)      *)
(*   pkg/rest/standards.go              (ParseQuery, the responses)        *)
(*   cmd/main.go, internal/http/handler.go (main, GracefulShutdown,        *)
(*                                        StartBlocking, Stop)             *)
(* The task table is the variable tasks.  Every service call is one SQL    *)
(* statement, except List, which runs a COUNT and then a SELECT: other     *)
(* requests may run between the two.                                       *)
(***************************************************************************)
EXTENDS Integers, Sequences, FiniteSets, TLC

\* ------------------------------------------------------------------ bounds
\* Successful mutations (INSERT, UPDATE, DELETE) in one behaviour.
MaxMutations == 2
\* Largest page number of a listing request.
MaxPage == 2
\* Rows of the table a listing at rest reads.
MaxRows == 3

\* The request handlers that run a listing.  A listing writes nothing that
\* another listing reads, so one handler, interleaved with the other requests,
\* shows every view a listing can have of the mutations around it.
Procs == {"h1"}

\* --------------------------------------------------------------- constants
TaskStatusPending == "pending"
TaskStatusInProgress == "in_progress"
TaskStatusDone == "done"
TaskStatusCanceled == "canceled"

NoErr == "nil"
ErrTaskNotFound == "task not found"
\* Any other error the database driver returns (connection lost, constraint).
ErrDB == "db error"
\* The error of a cache backend that does not answer.
ErrCache == "cache error"

\* A *entities.Task: <<>> is the nil pointer, <<t>> points to t.
Nil == <<>>
Ptr(t) == <<t>>

\* The fields a caller of Create or Update sets on the task it passes.
TaskInputs ==
  { [title |-> "T1", description |-> "d1", status |-> TaskStatusPending, assignee_id |-> 5],
    [title |-> "T2", description |-> "", status |-> TaskStatusDone, assignee_id |-> 6] }

\* rest.Filter: a map from field name to value.
NoFilter == [f \in {} |-> ""]
Filters == { NoFilter, [f \in {"status"} |-> TaskStatusPending] }

\* The page sizes of the listing requests.
PageSizes == {1}

\* rest.Query: the filter and the pagination the listing uses.
Queries ==
  { [Filter |-> f, Page |-> p, PerPage |-> s] : f \in Filters, p \in 1..MaxPage, s \in PageSizes }

VARIABLES
  tasks,       \* the tasks table: id -> row, for the ids that have a row
  nextID,      \* the next value of the id SERIAL sequence
  clock,       \* the database's now(), advanced by every committed statement
  tasksCount,  \* the TasksCount metric of task_service
  cache,       \* the cache backend's entries: key -> value
  cacheUp,     \* whether the cache backend answers
  pc,          \* per handler: "idle", "list" (in Task.List, before the COUNT), "counted"
  req,         \* per handler: the query of the listing in flight
  cnt,         \* per handler: the total the COUNT returned
  stale,       \* per handler: a mutation committed after its COUNT ran
  last,        \* the operation that returned last, with its results and its calls
  prev,        \* the last successful listing and whether a mutation followed it
  hreq,        \* per handler: the URL parameters of the GET /api/tasks it works on
  resp,        \* the response the HTTP handlers wrote last, with its request
  scn,         \* how far the requests so far have followed the end-to-end scenario
  call,        \* the task or id a recording caller passed to the service last
  mainPc,      \* where main is: "start", "listen", "serving", "waitDone", "cancel",
               \* "wait", "end"
  shutdownPc,  \* where the GracefulShutdown goroutine is: "waitSignal", "stop",
               \* "shutdown", "close", "end"
  quiteSignal, \* the signals buffered in the channel quiteSignal (capacity 1)
  done,        \* how many times the channel done was closed
  ctxDone,     \* whether the main context is cancelled
  HTTPServer,  \* h.HTTPServer: "nil", "new", "listening", "failed", "shutdown"
  panicked     \* whether a goroutine panicked, which ends the process

vars ==
  <<tasks, nextID, clock, tasksCount, cache, cacheUp, pc, req, cnt, stale, last, prev,
    hreq, resp, scn, call, mainPc, shutdownPc, quiteSignal, done, ctxDone, HTTPServer, panicked>>

\* The state of the HTTP layer: a caller of the service that is no HTTP
\* handler leaves it as it is.
hvars == <<hreq, resp, scn>>

\* What lies outside the service and its HTTP handlers: their steps leave it
\* as it is.
pvars == <<mainPc, shutdownPc, quiteSignal, done, ctxDone, HTTPServer, panicked>>

xvars == <<call, pvars>>

\* The ids a request may name: those the sequence has handed out (their rows
\* present or deleted) and the next one, which has no row yet.
IDs == 1..nextID

\* ------------------------------------------------------------ repository
\* The string a column holds, as the SQL comparison with a text parameter sees it.
IntStr(n) == IF n = 5 THEN "5" ELSE IF n = 6 THEN "6" ELSE "?"

Column(t, field) ==
  IF field = "status" THEN t.status
  ELSE IF field = "title" THEN t.title
  ELSE IntStr(t.assignee_id)

\* The WHERE clause of List: one equality per filter on status, assignee_id or
\* title; any other filter field adds no condition.
WhereFields(filter) == DOMAIN filter \cap {"status", "assignee_id", "title"}

Matches(t, filter) == \A f \in WhereFields(filter) : Column(t, f) = filter[f]

Matching(table, filter) == { id \in DOMAIN table : Matches(table[id], filter) }

\* The COUNT without its WHERE clause.
CountRows_NoWhere(table, filter) == Cardinality(DOMAIN table)

\* SELECT COUNT(*) FROM tasks WHERE ...
CountRows(table, filter) == Cardinality(Matching(table, filter))

\* The offset of a page counted from page 0.
Offset_PageTimesPerPage(query) == query.Page * query.PerPage

\* offset := (query.Page - 1) * query.PerPage
Offset(query) == (query.Page - 1) * query.PerPage

\* The sequences that hold every element of S once: the orders in which a
\* SELECT without ORDER BY may produce the rows.
Orders(S) ==
  { o \in [1..Cardinality(S) -> S] : \A i, j \in 1..Cardinality(S) : i # j => o[i] # o[j] }

\* LIMIT limit OFFSET offset over the rows in one order.
LimitOffset(rows, limit, offset) ==
  [i \in 1..(IF Len(rows) - offset < 0 THEN 0
             ELSE IF Len(rows) - offset < limit THEN Len(rows) - offset
             ELSE limit) |-> rows[offset + i]]

\* The results the SELECT ... LIMIT OFFSET of List may return.
SelectRows(table, query) ==
  { LimitOffset([i \in 1..Len(o) |-> table[o[i]]], query.PerPage, Offset(query)) :
      o \in Orders(Matching(table, query.Filter)) }

\* INSERT ... RETURNING id, created_at, updated_at, scanned into the input task.
InsertRow(in, id, now) ==
  [id |-> id, title |-> in.title, description |-> in.description, status |-> in.status,
   assignee_id |-> in.assignee_id, created_at |-> now, updated_at |-> now]

\* The UPDATE that sets created_at as well.
UpdateRow_SetsCreatedAt(row, in, now) ==
  [row EXCEPT !.title = in.title, !.description = in.description,
              !.status = in.status, !.created_at = now, !.updated_at = now]

\* UPDATE tasks SET title, description, status, updated_at = now() WHERE id.
UpdateRow(row, in, now) ==
  [row EXCEPT !.title = in.title, !.description = in.description,
              !.status = in.status, !.updated_at = now]

DeleteRow(table, id) == [i \in DOMAIN table \ {id} |-> table[i]]

\* --------------------------------------------------------------- results
NoQuery == [Filter |-> NoFilter, Page |-> 0, PerPage |-> 0]

\* The last successful listing: its query, and whether a successful mutation
\* has followed it ("listed" until then, "mutated" after).
NoPrev == [state |-> "none", query |-> NoQuery]

NoCache == [k \in {} |-> ""]

\* What an operation returned and which calls it made on its way: storeOps are
\* the SQL statements it ran, storeErr the error the repository returned,
\* cacheOps its calls of the Cache, cacheBefore the cache entries when it began.
Result(op, id, storeOps, storeErr, err, task) ==
  [op |-> op, query |-> NoQuery, id |-> id, storeOps |-> storeOps, storeErr |-> storeErr,
   err |-> err, task |-> task, tasks |-> <<>>, total |-> 0,
   cacheOps |-> <<>>, cacheBefore |-> cache,
   prior |-> "none", afterMutation |-> FALSE, stale |-> FALSE]

\* The same for a listing: prior is what had become of the last successful
\* listing of the same query when this one began ("none", "listed", "mutated"),
\* afterMutation whether a mutation had committed before it began, stale
\* whether one committed between its COUNT and its SELECT.
ListResult(p, storeOps, storeErr, err, rows, total) ==
  [Result("List", 0, storeOps, storeErr, err, Nil) EXCEPT
     !.query = req[p].query, !.tasks = rows, !.total = total,
     !.prior = req[p].prior, !.afterMutation = req[p].afterMutation, !.stale = stale[p]]

NoResult ==
  [op |-> "none", query |-> NoQuery, id |-> 0, storeOps |-> <<>>, storeErr |-> NoErr,
   err |-> NoErr, task |-> Nil, tasks |-> <<>>, total |-> 0,
   cacheOps |-> <<>>, cacheBefore |-> NoCache,
   prior |-> "none", afterMutation |-> FALSE, stale |-> FALSE]

NoRequest == [query |-> NoQuery, prior |-> "none", afterMutation |-> FALSE]

\* A successful mutation follows the last successful listing.
Mutated == IF prev.state = "none" THEN prev ELSE [prev EXCEPT !.state = "mutated"]

\* No response written yet.
NoResponse == [op |-> "none", status |-> 0]

\* url.Values without a parameter.
NoValues == [k \in {} |-> <<>>]

\* The process with main at pc and the HTTP server in the state server: the
\* GracefulShutdown goroutine waits for a signal, none has arrived, done is
\* open and the main context is not cancelled.
ProcessAt(pc_, server) ==
  /\ mainPc = pc_
  /\ shutdownPc = "waitSignal"
  /\ quiteSignal = 0
  /\ done = 0
  /\ ctxDone = FALSE
  /\ HTTPServer = server
  /\ panicked = FALSE

\* No call recorded.
NoCall == [op |-> "none"]

\* The state after construction: an empty table, no cache entry, no request
\* in flight.  up: whether the cache backend answers.
InitWith(up) ==
  /\ tasks = [i \in {} |-> 0]
  /\ nextID = 1
  /\ clock = 0
  /\ tasksCount = 0
  /\ cache = NoCache
  /\ cacheUp = up
  /\ pc = [p \in Procs |-> "idle"]
  /\ req = [p \in Procs |-> NoRequest]
  /\ cnt = [p \in Procs |-> 0]
  /\ stale = [p \in Procs |-> FALSE]
  /\ last = NoResult
  /\ prev = NoPrev
  /\ hreq = [p \in Procs |-> NoValues]
  /\ resp = NoResponse
  /\ scn = 0
  /\ call = NoCall
  /\ ProcessAt("serving", "listening")

Init == InitWith(TRUE)

InitCacheDown == InitWith(FALSE)

\* ---------------------------------------------------------------- service
\* A mutation that committed: the table becomes t.  The service makes no call
\* of the Cache, so the cache entries stay as they were.
Commit(t) ==
  /\ clock < MaxMutations
  /\ tasks' = t
  /\ clock' = clock + 1
  /\ cache' = cache
  /\ prev' = Mutated
  /\ stale' = [p \in Procs |-> pc[p] = "counted"]

\* An operation that left the table as it was.
NoCommit == UNCHANGED <<tasks, nextID, clock, tasksCount, cache, prev, stale>>

\* Create whose result is an error when the cache backend does not answer.
Create_CacheErr(in, ok) ==
  /\ IF ok
     THEN /\ Commit((nextID :> InsertRow(in, nextID, clock + 1)) @@ tasks)
          /\ nextID' = nextID + 1
          /\ tasksCount' = tasksCount + 1
          /\ last' = IF cacheUp
                     THEN Result("Create", 0, <<"INSERT">>, NoErr, NoErr,
                                 Ptr(InsertRow(in, nextID, clock + 1)))
                     ELSE Result("Create", 0, <<"INSERT">>, NoErr, ErrCache, Nil)
     ELSE /\ NoCommit
          /\ last' = Result("Create", 0, <<"INSERT">>, ErrDB, ErrDB, Nil)
  /\ UNCHANGED <<cacheUp, pc, req, cnt>>

\* Create whose INSERT takes the id from the task it is given.
Create_InputID(in, ok) ==
  /\ IF ok
     THEN /\ Commit((in.id :> InsertRow(in, in.id, clock + 1)) @@ tasks)
          /\ nextID' = nextID + 1
          /\ tasksCount' = tasksCount + 1
          /\ last' = Result("Create", 0, <<"INSERT">>, NoErr, NoErr,
                            Ptr(InsertRow(in, in.id, clock + 1)))
     ELSE /\ NoCommit
          /\ last' = Result("Create", 0, <<"INSERT">>, ErrDB, ErrDB, Nil)
  /\ UNCHANGED <<cacheUp, pc, req, cnt>>

\* Task.Create: taskRepo.Create, then TasksCount.Inc() when it succeeded.
\* ok: whether the INSERT succeeds.
Create(in, ok) ==
  /\ IF ok
     THEN /\ Commit((nextID :> InsertRow(in, nextID, clock + 1)) @@ tasks)
          /\ nextID' = nextID + 1
          /\ tasksCount' = tasksCount + 1
          /\ last' = Result("Create", 0, <<"INSERT">>, NoErr, NoErr,
                            Ptr(InsertRow(in, nextID, clock + 1)))
     ELSE /\ NoCommit
          /\ last' = Result("Create", 0, <<"INSERT">>, ErrDB, ErrDB, Nil)
  /\ UNCHANGED <<cacheUp, pc, req, cnt>>

\* Update that also stores the updated task in the cache.
Update_WriteThrough(id, in, ok) ==
  /\ IF ~ok
     THEN /\ NoCommit
          /\ last' = Result("Update", id, <<"UPDATE">>, ErrDB, ErrDB, Nil)
     ELSE IF id \notin DOMAIN tasks
     THEN /\ NoCommit
          /\ last' = Result("Update", id, <<"UPDATE">>, ErrTaskNotFound, ErrTaskNotFound, Nil)
     ELSE /\ clock < MaxMutations
          /\ tasks' = [tasks EXCEPT ![id] = UpdateRow(tasks[id], in, clock + 1)]
          /\ clock' = clock + 1
          /\ cache' = [k \in DOMAIN cache \cup {"tasks"} |-> in.title]
          /\ prev' = Mutated
          /\ stale' = [p \in Procs |-> pc[p] = "counted"]
          /\ UNCHANGED <<nextID, tasksCount>>
          /\ last' = Result("Update", id, <<"UPDATE">>, NoErr, NoErr,
                            Ptr(UpdateRow(tasks[id], in, clock + 1)))
  /\ UNCHANGED <<cacheUp, pc, req, cnt>>

\* Task.Update: taskRepo.Update of the task with ID id; sql.ErrNoRows becomes
\* ErrTaskNotFound.  ok: whether the UPDATE statement runs.
Update(id, in, ok) ==
  /\ IF ~ok
     THEN /\ NoCommit
          /\ last' = Result("Update", id, <<"UPDATE">>, ErrDB, ErrDB, Nil)
     ELSE IF id \notin DOMAIN tasks
     THEN /\ NoCommit
          /\ last' = Result("Update", id, <<"UPDATE">>, ErrTaskNotFound, ErrTaskNotFound, Nil)
     ELSE /\ Commit([tasks EXCEPT ![id] = UpdateRow(tasks[id], in, clock + 1)])
          /\ UNCHANGED <<nextID, tasksCount>>
          /\ last' = Result("Update", id, <<"UPDATE">>, NoErr, NoErr,
                            Ptr(UpdateRow(tasks[id], in, clock + 1)))
  /\ UNCHANGED <<cacheUp, pc, req, cnt>>

\* Delete whose statement has no WHERE clause: it deletes every row.
Delete_NoWhere(id, ok) ==
  /\ IF ~ok
     THEN /\ NoCommit
          /\ last' = Result("Delete", id, <<"DELETE">>, ErrDB, ErrDB, Nil)
     ELSE IF DOMAIN tasks = {}
     THEN /\ NoCommit
          /\ last' = Result("Delete", id, <<"DELETE">>, ErrTaskNotFound, ErrTaskNotFound, Nil)
     ELSE /\ Commit([i \in {} |-> 0])
          /\ UNCHANGED <<nextID, tasksCount>>
          /\ last' = Result("Delete", id, <<"DELETE">>, NoErr, NoErr, Nil)
  /\ UNCHANGED <<cacheUp, pc, req, cnt>>

\* Delete that reports success when no row was deleted.
Delete_NoRowsIsSuccess(id, ok) ==
  /\ IF ~ok
     THEN /\ NoCommit
          /\ last' = Result("Delete", id, <<"DELETE">>, ErrDB, ErrDB, Nil)
     ELSE IF id \notin DOMAIN tasks
     THEN /\ NoCommit
          /\ last' = Result("Delete", id, <<"DELETE">>, ErrTaskNotFound, NoErr, Nil)
     ELSE /\ Commit(DeleteRow(tasks, id))
          /\ UNCHANGED <<nextID, tasksCount>>
          /\ last' = Result("Delete", id, <<"DELETE">>, NoErr, NoErr, Nil)
  /\ UNCHANGED <<cacheUp, pc, req, cnt>>

\* Task.Delete: taskRepo.Delete; no row affected becomes ErrTaskNotFound.  On
\* success the service calls TasksCount...Desc(), which changes no metric.
Delete(id, ok) ==
  /\ IF ~ok
     THEN /\ NoCommit
          /\ last' = Result("Delete", id, <<"DELETE">>, ErrDB, ErrDB, Nil)
     ELSE IF id \notin DOMAIN tasks
     THEN /\ NoCommit
          /\ last' = Result("Delete", id, <<"DELETE">>, ErrTaskNotFound, ErrTaskNotFound, Nil)
     ELSE /\ Commit(DeleteRow(tasks, id))
          /\ UNCHANGED <<nextID, tasksCount>>
          /\ last' = Result("Delete", id, <<"DELETE">>, NoErr, NoErr, Nil)
  /\ UNCHANGED <<cacheUp, pc, req, cnt>>

\* GetByID that answers with the task as it was when it was inserted.
GetByID_AsInserted(id, ok) ==
  /\ last' = IF ~ok THEN Result("GetByID", id, <<"SELECT">>, ErrDB, ErrDB, Nil)
             ELSE IF id \notin DOMAIN tasks
             THEN Result("GetByID", id, <<"SELECT">>, ErrTaskNotFound, ErrTaskNotFound, Nil)
             ELSE Result("GetByID", id, <<"SELECT">>, NoErr, NoErr,
                         Ptr([tasks[id] EXCEPT !.updated_at = tasks[id].created_at]))
  /\ NoCommit
  /\ UNCHANGED <<cacheUp, pc, req, cnt>>

\* Task.GetByID: taskRepo.GetByID; sql.ErrNoRows becomes ErrTaskNotFound.
GetByID(id, ok) ==
  /\ last' = IF ~ok THEN Result("GetByID", id, <<"SELECT">>, ErrDB, ErrDB, Nil)
             ELSE IF id \notin DOMAIN tasks
             THEN Result("GetByID", id, <<"SELECT">>, ErrTaskNotFound, ErrTaskNotFound, Nil)
             ELSE Result("GetByID", id, <<"SELECT">>, NoErr, NoErr, Ptr(tasks[id]))
  /\ NoCommit
  /\ UNCHANGED <<cacheUp, pc, req, cnt>>

\* The listing of handler p returns.
ListReturn(p, storeOps, storeErr, err, rows, total) ==
  /\ last' = ListResult(p, storeOps, storeErr, err, rows, total)
  /\ prev' = IF err = NoErr THEN [state |-> "listed", query |-> req[p].query] ELSE prev
  /\ pc' = [pc EXCEPT ![p] = "idle"]
  /\ req' = [req EXCEPT ![p] = NoRequest]
  /\ cnt' = [cnt EXCEPT ![p] = 0]
  /\ stale' = [stale EXCEPT ![p] = FALSE]

\* The request a listing of query works on.
Request(query) ==
  [query |-> query,
   prior |-> IF prev.query = query THEN prev.state ELSE "none",
   afterMutation |-> clock > 0]

\* Task.List that returns at once, without a call of the repository.
ListEnter_NoRepo(p, query) ==
  /\ pc[p] = "idle"
  /\ last' = [Result("List", 0, <<>>, NoErr, NoErr, Nil) EXCEPT
                !.query = query, !.prior = Request(query).prior,
                !.afterMutation = Request(query).afterMutation]
  /\ prev' = [state |-> "listed", query |-> query]
  /\ UNCHANGED <<tasks, nextID, clock, tasksCount, cache, cacheUp, pc, req, cnt, stale>>

\* Task.List that fails when the cache backend does not answer.
ListEnter_CacheErr(p, query) ==
  /\ pc[p] = "idle"
  /\ IF cacheUp
     THEN /\ pc' = [pc EXCEPT ![p] = "list"]
          /\ req' = [req EXCEPT ![p] = Request(query)]
          /\ UNCHANGED <<last, prev>>
     ELSE /\ last' = [Result("List", 0, <<>>, NoErr, ErrCache, Nil) EXCEPT !.query = query]
          /\ UNCHANGED <<pc, req, prev>>
  /\ UNCHANGED <<tasks, nextID, clock, tasksCount, cache, cacheUp, cnt, stale>>

\* Task.List is entered with a query: it calls taskRepo.List, which builds its
\* two statements from the query.  No Cache is consulted on the way.
ListEnter(p, query) ==
  /\ pc[p] = "idle"
  /\ pc' = [pc EXCEPT ![p] = "list"]
  /\ req' = [req EXCEPT ![p] = Request(query)]
  /\ UNCHANGED <<tasks, nextID, clock, tasksCount, cache, cacheUp, cnt, stale, last, prev>>

\* taskRepo.List, first statement: the COUNT.  When it fails List returns
\* (nil, 0, err).
ListCount(p, ok) ==
  /\ pc[p] = "list"
  /\ IF ok
     THEN /\ cnt' = [cnt EXCEPT ![p] = CountRows(tasks, req[p].query.Filter)]
          /\ pc' = [pc EXCEPT ![p] = "counted"]
          /\ UNCHANGED <<req, stale, last, prev>>
     ELSE ListReturn(p, <<"COUNT">>, ErrDB, ErrDB, <<>>, 0)
  /\ UNCHANGED <<tasks, nextID, clock, tasksCount, cache, cacheUp>>

\* Whether the database runs SELECT ... LIMIT limit OFFSET offset: it rejects
\* a negative LIMIT and a negative OFFSET.
LimitOffsetValid(limit, offset) == limit >= 0 /\ offset >= 0

\* The SELECT whose error is dropped: List returns the COUNT's total and no row.
ListSelect_ErrDropped(p, ok) ==
  /\ pc[p] = "counted"
  /\ IF ok /\ LimitOffsetValid(req[p].query.PerPage, Offset(req[p].query))
     THEN \E rows \in SelectRows(tasks, req[p].query) :
            ListReturn(p, <<"COUNT", "SELECT">>, NoErr, NoErr, rows, cnt[p])
     ELSE ListReturn(p, <<"COUNT", "SELECT">>, ErrDB, NoErr, <<>>, cnt[p])
  /\ UNCHANGED <<tasks, nextID, clock, tasksCount, cache, cacheUp>>

\* taskRepo.List, second statement: the SELECT with LIMIT and OFFSET.  When it
\* fails List returns (nil, 0, err); otherwise the rows and the COUNT's total.
\* ok: whether the database is able to run the statement.
ListSelect(p, ok) ==
  /\ pc[p] = "counted"
  /\ IF ok /\ LimitOffsetValid(req[p].query.PerPage, Offset(req[p].query))
     THEN \E rows \in SelectRows(tasks, req[p].query) :
            ListReturn(p, <<"COUNT", "SELECT">>, NoErr, NoErr, rows, cnt[p])
     ELSE ListReturn(p, <<"COUNT", "SELECT">>, ErrDB, ErrDB, <<>>, 0)
  /\ UNCHANGED <<tasks, nextID, clock, tasksCount, cache, cacheUp>>

\* The service called directly, as its tests call it.
Next ==
  \/ \E in \in TaskInputs, ok \in BOOLEAN : Create(in, ok) /\ UNCHANGED <<hvars, xvars>>
  \/ \E id \in IDs, in \in TaskInputs, ok \in BOOLEAN : Update(id, in, ok) /\ UNCHANGED <<hvars, xvars>>
  \/ \E id \in IDs, ok \in BOOLEAN : Delete(id, ok) /\ UNCHANGED <<hvars, xvars>>
  \/ \E id \in IDs, ok \in BOOLEAN : GetByID(id, ok) /\ UNCHANGED <<hvars, xvars>>
  \/ \E p \in Procs, query \in Queries : ListEnter(p, query) /\ UNCHANGED <<hvars, xvars>>
  \/ \E p \in Procs, ok \in BOOLEAN : ListCount(p, ok) /\ UNCHANGED <<hvars, xvars>>
  \/ \E p \in Procs, ok \in BOOLEAN : ListSelect(p, ok) /\ UNCHANGED <<hvars, xvars>>

Spec == Init /\ [][Next]_vars

\* The same service in front of a cache backend that never answers.
SpecCacheDown == InitCacheDown /\ [][Next]_vars

\* ------------------------------------------------------ a listing at rest
\* The page size of the listings of a table at rest (the other listings have
\* pages of one task).
ListPageSizes == {2}

\* The filters of the listings of a table at rest: none, one on status, one
\* on title and assignee_id.
ListFilters ==
  Filters \cup { [f \in {"title", "assignee_id"} |-> IF f = "title" THEN "T2" ELSE "6"] }

\* The queries of the listings of a table at rest.
ListQueries ==
  { [Filter |-> f, Page |-> p, PerPage |-> s] :
      f \in ListFilters, p \in 1..MaxPage, s \in ListPageSizes }

\* The tables that n calls of Create leave, n up to MaxRows.
Tables ==
  UNION { { [id \in 1..n |-> InsertRow(in[id], id, id)] : in \in [1..n -> TaskInputs] } :
            n \in 0..MaxRows }

\* The service after the calls of Create that filled the table.
InitList ==
  /\ tasks \in Tables
  /\ nextID = Cardinality(DOMAIN tasks) + 1
  /\ clock = Cardinality(DOMAIN tasks)
  /\ tasksCount = Cardinality(DOMAIN tasks)
  /\ cache = NoCache
  /\ cacheUp = TRUE
  /\ pc = [p \in Procs |-> "idle"]
  /\ req = [p \in Procs |-> NoRequest]
  /\ cnt = [p \in Procs |-> 0]
  /\ stale = [p \in Procs |-> FALSE]
  /\ last = NoResult
  /\ prev = NoPrev
  /\ hreq = [p \in Procs |-> NoValues]
  /\ resp = NoResponse
  /\ scn = 0
  /\ call = NoCall
  /\ ProcessAt("serving", "listening")

\* Listings only: no other request changes the table meanwhile.
NextList ==
  \/ \E p \in Procs, query \in ListQueries : ListEnter(p, query) /\ UNCHANGED <<hvars, xvars>>
  \/ \E p \in Procs, ok \in BOOLEAN : ListCount(p, ok) /\ UNCHANGED <<hvars, xvars>>
  \/ \E p \in Procs, ok \in BOOLEAN : ListSelect(p, ok) /\ UNCHANGED <<hvars, xvars>>

SpecList == InitList /\ [][NextList]_vars

\* -------------------------------------------------------------- HTTP layer
\* net/http status codes the handlers answer with.
StatusOK == 200
StatusCreated == 201
StatusNoContent == 204
StatusBadRequest == 400
StatusNotFound == 404
StatusInternalServerError == 500

\* rest.ResponseStatus
OK == "ok"
Fail == "fail"

InvalidTaskStatus == "Invalid task status"
TaskIDIsRequired == "Task ID is required"
InvalidTaskID == "Invalid task ID"
\* The error of ShouldBindJSON when a binding tag of the request fails.
ErrBinding == "binding"

\* The service's state: a handler that answers without a call of the service
\* leaves it as it is.
svars == <<tasks, nextID, clock, tasksCount, cache, cacheUp, pc, req, cnt, stale, last, prev>>

\* TaskStatus.IsValid
IsValid(s) ==
  s \in {TaskStatusPending, TaskStatusInProgress, TaskStatusDone, TaskStatusCanceled}

\* The decimal strings of the numbers 1 to 9.
NumStr == <<"1", "2", "3", "4", "5", "6", "7", "8", "9">>

\* strconv.Atoi and strconv.ParseInt on the strings the requests carry: the
\* number, or 0 and an error for a string that is no number.
Atoi(s) ==
  IF \E n \in DOMAIN NumStr : NumStr[n] = s
  THEN [n |-> CHOOSE n \in DOMAIN NumStr : NumStr[n] = s, err |-> FALSE]
  ELSE IF s = "0" THEN [n |-> 0, err |-> FALSE]
  ELSE IF s = "-1" THEN [n |-> -1, err |-> FALSE]
  ELSE IF s = "20" THEN [n |-> 20, err |-> FALSE]
  ELSE [n |-> 0, err |-> TRUE]

\* The zero PaginationMeta.
NoMeta == [Page |-> 0, PerPage |-> 0, Total |-> 0, TotalPages |-> 0]

GetSuccessResponse(data) ==
  [Data |-> data, Meta |-> NoMeta, Message |-> "success", Errors |-> <<>>, Status |-> OK]

GetFailedResponseFromMessage(message) ==
  [Data |-> Nil, Meta |-> NoMeta, Message |-> message, Errors |-> <<>>, Status |-> Fail]

InternalServerError == GetFailedResponseFromMessage("Internal Server Error")

NotFound == GetFailedResponseFromMessage("Not Found!")

GetFailedValidationResponse(err) ==
  [Data |-> Nil, Meta |-> NoMeta, Message |-> "validation error", Errors |-> <<err>>,
   Status |-> Fail]

GetSuccessResponseWithMeta(data, meta) ==
  [Data |-> data, Meta |-> meta, Message |-> "success", Errors |-> <<>>, Status |-> OK]

\* TaskResponse of a task.  The clock counts whole seconds, which the RFC 3339
\* format of created_at and updated_at keeps.
TaskResponse(t) ==
  [id |-> t.id, title |-> t.title, description |-> t.description, status |-> t.status,
   assignee_id |-> t.assignee_id, created_at |-> t.created_at, updated_at |-> t.updated_at]

\* The binding tags of CreateTaskRequest: title and assignee_id are required
\* (a missing field is the zero value, which required rejects).
BindCreateTaskRequest(body) == body.title # "" /\ body.assignee_id # 0

\* The binding tags of UpdateTaskRequest: title, status and assignee_id are
\* required, status is one of the four statuses.
BindUpdateTaskRequest(body) ==
  /\ body.title # ""
  /\ body.status # ""
  /\ body.status \in {"pending", "in_progress", "done", "canceled"}
  /\ body.assignee_id # 0

\* The entities.Task a handler builds from a request body.
TaskOf(body, status) ==
  [title |-> body.title, description |-> body.description, status |-> status,
   assignee_id |-> body.assignee_id]

\* rest.ParseQuery on the URL parameters values (url.Values: key -> values):
\* page and per_page are the numbers of their first values, 0 when that is no
\* number; every other key is a filter on its first value; a page of 0 becomes
\* 1 and a per_page of 0 becomes 20.
ParseQuery(values) ==
  LET keys == { k \in DOMAIN values : Len(values[k]) # 0 }
      page == IF "page" \in keys THEN Atoi(values["page"][1]).n ELSE 0
      perPage == IF "per_page" \in keys THEN Atoi(values["per_page"][1]).n ELSE 0
  IN  [Filter |-> [k \in keys \ {"page", "per_page"} |-> values[k][1]],
       Page |-> IF page = 0 THEN 1 ELSE page,
       PerPage |-> IF perPage = 0 THEN 20 ELSE perPage]

\* The requests of the end-to-end scenario: POST {title: T1, assignee_id: 5},
\* GET /api/tasks (page 1, size 20), PUT /api/tasks/1 with the title T2,
\* DELETE /api/tasks/1.
ScenarioCreate == [title |-> "T1", description |-> "", status |-> "", assignee_id |-> 5]
ScenarioUpdate ==
  [title |-> "T2", description |-> "", status |-> TaskStatusPending, assignee_id |-> 5]

\* How far the responses so far have followed the scenario, one request after
\* the other from the empty table: 1 after the create, 2 and 3 after the two
\* listings, 4 after the update, 5 after the listing, 6 after the delete, 7
\* after the last listing; -1 once another request or another answer came.
ScenarioStep(op, request, status) ==
  IF op # "TaskList" /\ \E p \in Procs : pc[p] # "idle" THEN -1
  ELSE IF scn = 0 /\ op = "TaskCreate" /\ status = StatusCreated /\ request = ScenarioCreate
  THEN 1
  ELSE IF scn \in {1, 2, 4, 6} /\ op = "TaskList" /\ status = StatusOK /\ request = NoValues
  THEN scn + 1
  ELSE IF /\ scn = 3 /\ op = "TaskUpdate" /\ status = StatusOK
          /\ request = [id |-> "1", body |-> ScenarioUpdate]
  THEN 4
  ELSE IF scn = 5 /\ op = "TaskDelete" /\ status = StatusNoContent /\ request = "1"
  THEN 6
  ELSE -1

\* c.JSON(status, body), or c.Status(status) with no body: the handler answers.
Respond(op, request, status, body) ==
  /\ resp' = [op |-> op, request |-> request, status |-> status, body |-> body]
  /\ scn' = ScenarioStep(op, request, status)

\* The handler answers 400 without a call of the service.
Reject(op, request, err) ==
  /\ Respond(op, request, StatusBadRequest, GetFailedValidationResponse(err))
  /\ UNCHANGED svars
  /\ UNCHANGED hreq

\* TaskCreate without the check of the status.
TaskCreate_NoStatusCheck(body, ok) ==
  IF ~BindCreateTaskRequest(body)
  THEN Reject("TaskCreate", body, ErrBinding)
  ELSE /\ Create(TaskOf(body, IF body.status = "" THEN TaskStatusPending ELSE body.status), ok)
       /\ UNCHANGED hreq
       /\ IF last'.err # NoErr
          THEN Respond("TaskCreate", body, StatusInternalServerError, InternalServerError)
          ELSE Respond("TaskCreate", body, StatusCreated,
                       GetSuccessResponse(TaskResponse(last'.task[1])))

\* TaskCreate that leaves an empty status as it is.
TaskCreate_NoDefault(body, ok) ==
  IF ~BindCreateTaskRequest(body)
  THEN Reject("TaskCreate", body, ErrBinding)
  ELSE IF ~IsValid(body.status)
  THEN Reject("TaskCreate", body, InvalidTaskStatus)
  ELSE /\ Create(TaskOf(body, body.status), ok)
       /\ UNCHANGED hreq
       /\ IF last'.err # NoErr
          THEN Respond("TaskCreate", body, StatusInternalServerError, InternalServerError)
          ELSE Respond("TaskCreate", body, StatusCreated,
                       GetSuccessResponse(TaskResponse(last'.task[1])))

\* Handler.TaskCreate, POST /api/tasks with the JSON body: bind, default an
\* empty status to pending, check the status, call the service.
TaskCreate(body, ok) ==
  IF ~BindCreateTaskRequest(body)
  THEN Reject("TaskCreate", body, ErrBinding)
  ELSE IF ~IsValid(IF body.status = "" THEN TaskStatusPending ELSE body.status)
  THEN Reject("TaskCreate", body, InvalidTaskStatus)
  ELSE /\ Create(TaskOf(body, IF body.status = "" THEN TaskStatusPending ELSE body.status), ok)
       /\ UNCHANGED hreq
       /\ IF last'.err # NoErr
          THEN Respond("TaskCreate", body, StatusInternalServerError, InternalServerError)
          ELSE Respond("TaskCreate", body, StatusCreated,
                       GetSuccessResponse(TaskResponse(last'.task[1])))

\* TaskUpdate without the test for ErrTaskNotFound.
TaskUpdate_NotFoundAs500(idParam, body, ok) ==
  IF idParam = ""
  THEN Reject("TaskUpdate", [id |-> idParam, body |-> body], TaskIDIsRequired)
  ELSE IF Atoi(idParam).err
  THEN Reject("TaskUpdate", [id |-> idParam, body |-> body], InvalidTaskStatus)
  ELSE IF ~BindUpdateTaskRequest(body)
  THEN Reject("TaskUpdate", [id |-> idParam, body |-> body], ErrBinding)
  ELSE /\ Update(Atoi(idParam).n, TaskOf(body, body.status), ok)
       /\ UNCHANGED hreq
       /\ IF last'.err # NoErr
          THEN Respond("TaskUpdate", [id |-> idParam, body |-> body],
                       StatusInternalServerError, InternalServerError)
          ELSE Respond("TaskUpdate", [id |-> idParam, body |-> body], StatusOK,
                       GetSuccessResponse(TaskResponse(last'.task[1])))

\* Handler.TaskUpdate, PUT /api/tasks/:id: parse the id, bind the body, call
\* the service.  (An id that is no number is answered with the message
\* InvalidTaskStatus.)
TaskUpdate(idParam, body, ok) ==
  IF idParam = ""
  THEN Reject("TaskUpdate", [id |-> idParam, body |-> body], TaskIDIsRequired)
  ELSE IF Atoi(idParam).err
  THEN Reject("TaskUpdate", [id |-> idParam, body |-> body], InvalidTaskStatus)
  ELSE IF ~BindUpdateTaskRequest(body)
  THEN Reject("TaskUpdate", [id |-> idParam, body |-> body], ErrBinding)
  ELSE /\ Update(Atoi(idParam).n, TaskOf(body, body.status), ok)
       /\ UNCHANGED hreq
       /\ IF last'.err # NoErr
          THEN IF last'.err = ErrTaskNotFound
               THEN Respond("TaskUpdate", [id |-> idParam, body |-> body],
                            StatusNotFound, NotFound)
               ELSE Respond("TaskUpdate", [id |-> idParam, body |-> body],
                            StatusInternalServerError, InternalServerError)
          ELSE Respond("TaskUpdate", [id |-> idParam, body |-> body], StatusOK,
                       GetSuccessResponse(TaskResponse(last'.task[1])))

\* Handler.TaskDelete, DELETE /api/tasks/:id.
TaskDelete(idParam, ok) ==
  IF idParam = ""
  THEN Reject("TaskDelete", idParam, TaskIDIsRequired)
  ELSE IF Atoi(idParam).err
  THEN Reject("TaskDelete", idParam, InvalidTaskID)
  ELSE /\ Delete(Atoi(idParam).n, ok)
       /\ UNCHANGED hreq
       /\ IF last'.err # NoErr
          THEN IF last'.err = ErrTaskNotFound
               THEN Respond("TaskDelete", idParam, StatusNotFound, NotFound)
               ELSE Respond("TaskDelete", idParam, StatusInternalServerError,
                            InternalServerError)
          ELSE Respond("TaskDelete", idParam, StatusNoContent, Nil)

\* Handler.TaskGetByID, GET /api/tasks/:id.
TaskGetByID(idParam, ok) ==
  IF idParam = ""
  THEN Reject("TaskGetByID", idParam, TaskIDIsRequired)
  ELSE IF Atoi(idParam).err
  THEN Reject("TaskGetByID", idParam, InvalidTaskID)
  ELSE /\ GetByID(Atoi(idParam).n, ok)
       /\ UNCHANGED hreq
       /\ IF last'.err # NoErr
          THEN IF last'.err = ErrTaskNotFound
               THEN Respond("TaskGetByID", idParam, StatusNotFound, NotFound)
               ELSE Respond("TaskGetByID", idParam, StatusInternalServerError,
                            InternalServerError)
          ELSE Respond("TaskGetByID", idParam, StatusOK,
                       GetSuccessResponse(TaskResponse(last'.task[1])))

\* Handler.TaskList, GET /api/tasks, up to its call of the service: the query
\* is ParseQuery of the URL parameters.
TaskListEnter(p, values) ==
  /\ ListEnter(p, ParseQuery(values))
  /\ hreq' = [hreq EXCEPT ![p] = values]
  /\ UNCHANGED <<resp, scn>>

\* Handler.TaskList after a statement of the service's List: when List has
\* returned the handler answers 500, or 200 with the tasks and the meta of
\* total, page and per_page.
TaskListRespond(p) ==
  IF pc'[p] # "idle"
  THEN UNCHANGED hvars
  ELSE /\ hreq' = [hreq EXCEPT ![p] = NoValues]
       /\ IF last'.err # NoErr
          THEN Respond("TaskList", hreq[p], StatusInternalServerError, InternalServerError)
          ELSE Respond("TaskList", hreq[p], StatusOK,
                       GetSuccessResponseWithMeta(last'.tasks,
                         [NoMeta EXCEPT !.Total = last'.total,
                                        !.Page = ParseQuery(hreq[p]).Page,
                                        !.PerPage = ParseQuery(hreq[p]).PerPage]))

TaskListCount(p, ok) == ListCount(p, ok) /\ TaskListRespond(p)

TaskListSelect(p, ok) == ListSelect(p, ok) /\ TaskListRespond(p)

\* The bodies of the POST and PUT requests that pass validation.
CreateBodies ==
  { ScenarioCreate,
    [title |-> "T2", description |-> "d2", status |-> TaskStatusDone, assignee_id |-> 6] }

UpdateBodies == { ScenarioUpdate }

\* The :id of a request: the ids the sequence has handed out and the next one.
IDParams == { NumStr[id] : id \in IDs }

\* The URL parameters of the GET /api/tasks requests: none; page=<MaxPage>,
\* per_page=1; page=-1; page=0, per_page=-1; page=abc with two status values
\* and description=d1.
URLValues ==
  { NoValues,
    [k \in {"page", "per_page"} |-> IF k = "page" THEN <<NumStr[MaxPage]>> ELSE <<"1">>],
    [k \in {"page"} |-> <<"-1">>],
    [k \in {"page", "per_page"} |-> IF k = "page" THEN <<"0">> ELSE <<"-1">>],
    [k \in {"page", "status", "description"} |->
       IF k = "page" THEN <<"abc">>
       ELSE IF k = "status" THEN <<TaskStatusPending, TaskStatusDone>>
       ELSE <<"d1">>] }

\* The requests of HTTP clients that send well-formed bodies and ids.
NextHTTP ==
  \/ \E body \in CreateBodies, ok \in BOOLEAN : TaskCreate(body, ok) /\ UNCHANGED xvars
  \/ \E idParam \in IDParams, body \in UpdateBodies, ok \in BOOLEAN :
       TaskUpdate(idParam, body, ok) /\ UNCHANGED xvars
  \/ \E idParam \in IDParams, ok \in BOOLEAN : TaskDelete(idParam, ok) /\ UNCHANGED xvars
  \/ \E idParam \in IDParams, ok \in BOOLEAN : TaskGetByID(idParam, ok) /\ UNCHANGED xvars
  \/ \E p \in Procs, values \in URLValues : TaskListEnter(p, values) /\ UNCHANGED xvars
  \/ \E p \in Procs, ok \in BOOLEAN : TaskListCount(p, ok) /\ UNCHANGED xvars
  \/ \E p \in Procs, ok \in BOOLEAN : TaskListSelect(p, ok) /\ UNCHANGED xvars

SpecHTTP == Init /\ [][NextHTTP]_vars

\* The bodies of POST requests, those included that validation rejects: a
\* status that is no TaskStatus, no title, no assignee_id.
AllCreateBodies ==
  CreateBodies \cup
    { [title |-> "T1", description |-> "", status |-> "urgent", assignee_id |-> 5],
      [title |-> "", description |-> "", status |-> TaskStatusPending, assignee_id |-> 5],
      [title |-> "T2", description |-> "", status |-> "", assignee_id |-> 0] }

\* The bodies of PUT requests, those included that validation rejects: no
\* status, a status that is no TaskStatus.
AllUpdateBodies ==
  UpdateBodies \cup
    { [title |-> "T2", description |-> "", status |-> "", assignee_id |-> 5],
      [title |-> "T2", description |-> "", status |-> "urgent", assignee_id |-> 5] }

\* The :id of a request, one that is no number included.
AllIDParams == IDParams \cup {"abc"}

\* The requests for one task, valid and invalid, one at a time.
NextValidate ==
  \/ \E body \in AllCreateBodies, ok \in BOOLEAN : TaskCreate(body, ok) /\ UNCHANGED xvars
  \/ \E idParam \in AllIDParams, body \in AllUpdateBodies, ok \in BOOLEAN :
       TaskUpdate(idParam, body, ok) /\ UNCHANGED xvars
  \/ \E idParam \in AllIDParams, ok \in BOOLEAN : TaskDelete(idParam, ok) /\ UNCHANGED xvars
  \/ \E idParam \in AllIDParams, ok \in BOOLEAN : TaskGetByID(idParam, ok) /\ UNCHANGED xvars

SpecValidate == Init /\ [][NextValidate]_vars

\* ------------------------------------------- the service called with tasks
\* The *entities.Task a caller passes to Create and Update: it carries an ID
\* (RandomTask sets one), that of a row, of a deleted row or of no row yet.
CallTasks ==
  { [id |-> id, title |-> in.title, description |-> in.description, status |-> in.status,
     assignee_id |-> in.assignee_id] : id \in IDs, in \in TaskInputs }

\* The tables a caller finds: empty, or with the one task an earlier call of
\* Create left (CreateTestTask).
CallTables ==
  { [id \in {} |-> 0] } \cup { [id \in {1} |-> InsertRow(in, 1, 0)] : in \in TaskInputs }

InitCalls ==
  /\ tasks \in CallTables
  /\ nextID = Cardinality(DOMAIN tasks) + 1
  /\ clock = 0
  /\ tasksCount = Cardinality(DOMAIN tasks)
  /\ cache = NoCache
  /\ cacheUp = TRUE
  /\ pc = [p \in Procs |-> "idle"]
  /\ req = [p \in Procs |-> NoRequest]
  /\ cnt = [p \in Procs |-> 0]
  /\ stale = [p \in Procs |-> FALSE]
  /\ last = NoResult
  /\ prev = NoPrev
  /\ hreq = [p \in Procs |-> NoValues]
  /\ resp = NoResponse
  /\ scn = 0
  /\ call = NoCall
  /\ ProcessAt("serving", "listening")

\* taskService.Create(ctx, task)
CallCreate(task, ok) ==
  /\ Create(task, ok)
  /\ call' = [op |-> "Create", task |-> task]
  /\ UNCHANGED <<hvars, pvars>>

\* taskService.Update(ctx, task): the repository updates the row of task.ID.
CallUpdate(task, ok) ==
  /\ Update(task.id, task, ok)
  /\ call' = [op |-> "Update", task |-> task]
  /\ UNCHANGED <<hvars, pvars>>

\* taskService.Delete(ctx, id)
CallDelete(id, ok) ==
  /\ Delete(id, ok)
  /\ call' = [op |-> "Delete", id |-> id]
  /\ UNCHANGED <<hvars, pvars>>

\* taskService.GetByID(ctx, id)
CallGetByID(id, ok) ==
  /\ GetByID(id, ok)
  /\ call' = [op |-> "GetByID", id |-> id]
  /\ UNCHANGED <<hvars, pvars>>

\* The calls for one task, one after the other, as the integration tests make
\* them.
NextCalls ==
  \/ \E task \in CallTasks, ok \in BOOLEAN : CallCreate(task, ok)
  \/ \E task \in CallTasks, ok \in BOOLEAN : CallUpdate(task, ok)
  \/ \E id \in IDs, ok \in BOOLEAN : CallDelete(id, ok)
  \/ \E id \in IDs, ok \in BOOLEAN : CallGetByID(id, ok)

SpecCalls == InitCalls /\ [][NextCalls]_vars

\* ------------------------------------------------------------ the process
\* main after it has started the GracefulShutdown goroutine and made the main
\* context, before server.Start.
InitMain ==
  /\ tasks = [i \in {} |-> 0]
  /\ nextID = 1
  /\ clock = 0
  /\ tasksCount = 0
  /\ cache = NoCache
  /\ cacheUp = TRUE
  /\ pc = [p \in Procs |-> "idle"]
  /\ req = [p \in Procs |-> NoRequest]
  /\ cnt = [p \in Procs |-> 0]
  /\ stale = [p \in Procs |-> FALSE]
  /\ last = NoResult
  /\ prev = NoPrev
  /\ hreq = [p \in Procs |-> NoValues]
  /\ resp = NoResponse
  /\ scn = 0
  /\ call = NoCall
  /\ ProcessAt("start", "nil")

\* The process runs: main has not returned and no goroutine has panicked.
Running == mainPc # "end" /\ ~panicked

\* What a step of main or of the goroutine leaves as it is.
rvars == <<svars, hvars, call>>

\* A SIGINT or SIGTERM arrives: signal.Notify puts it in quiteSignal when the
\* channel has room, and drops it otherwise.
Signal ==
  /\ Running
  /\ quiteSignal = 0
  /\ quiteSignal' = 1
  /\ UNCHANGED <<mainPc, shutdownPc, done, ctxDone, HTTPServer, panicked, rvars>>

\* StartBlocking up to ListenAndServe: it assigns h.HTTPServer.
StartBlocking ==
  /\ Running
  /\ mainPc = "start"
  /\ HTTPServer' = "new"
  /\ mainPc' = "listen"
  /\ UNCHANGED <<shutdownPc, quiteSignal, done, ctxDone, panicked, rvars>>

\* ListenAndServe: after Shutdown it returns ErrServerClosed at once; else it
\* listens and serves, or fails to listen and returns the error, which
\* StartBlocking logs before it returns.  ok: whether the port can be bound.
ListenAndServe(ok) ==
  /\ Running
  /\ mainPc = "listen"
  /\ IF HTTPServer = "shutdown"
     THEN /\ mainPc' = "waitDone"
          /\ UNCHANGED HTTPServer
     ELSE IF ok
     THEN /\ HTTPServer' = "listening"
          /\ mainPc' = "serving"
     ELSE /\ HTTPServer' = "failed"
          /\ mainPc' = "waitDone"
  /\ UNCHANGED <<shutdownPc, quiteSignal, done, ctxDone, panicked, rvars>>

\* ListenAndServe returns ErrServerClosed once Shutdown was called, and
\* StartBlocking and server.Start return.
ServeReturn ==
  /\ Running
  /\ mainPc = "serving"
  /\ HTTPServer = "shutdown"
  /\ mainPc' = "waitDone"
  /\ UNCHANGED <<shutdownPc, quiteSignal, done, ctxDone, HTTPServer, panicked, rvars>>

\* main with <-done left out: it goes on as soon as StartBlocking returned.
ReceiveDone_NoWait ==
  /\ Running
  /\ mainPc = "waitDone"
  /\ mainPc' = "cancel"
  /\ UNCHANGED <<shutdownPc, quiteSignal, done, ctxDone, HTTPServer, panicked, rvars>>

\* <-done in main: it returns when done is closed.
ReceiveDone ==
  /\ Running
  /\ mainPc = "waitDone"
  /\ done > 0
  /\ mainPc' = "cancel"
  /\ UNCHANGED <<shutdownPc, quiteSignal, done, ctxDone, HTTPServer, panicked, rvars>>

\* cancel() in main.
Cancel ==
  /\ Running
  /\ mainPc = "cancel"
  /\ ctxDone' = TRUE
  /\ mainPc' = "wait"
  /\ UNCHANGED <<shutdownPc, quiteSignal, done, HTTPServer, panicked, rvars>>

\* server.Wait(): no goroutine was added to the WaitGroup, so it returns at
\* once, and main returns.
Wait ==
  /\ Running
  /\ mainPc = "wait"
  /\ mainPc' = "end"
  /\ UNCHANGED <<shutdownPc, quiteSignal, done, ctxDone, HTTPServer, panicked, rvars>>

\* <-quitSignal in GracefulShutdown.
ReceiveSignal ==
  /\ Running
  /\ shutdownPc = "waitSignal"
  /\ quiteSignal > 0
  /\ quiteSignal' = quiteSignal - 1
  /\ shutdownPc' = "stop"
  /\ UNCHANGED <<mainPc, done, ctxDone, HTTPServer, panicked, rvars>>

\* Stop up to its call of Shutdown.  It reads h.HTTPServer, which main writes
\* in StartBlocking with no synchronisation between the two: seen is what the
\* read gives, nil before the write, nil or the server after it.  On nil
\* SetKeepAlivesEnabled panics.  Shutdown closes the listener, so that
\* ListenAndServe returns.
Stop(seen) ==
  /\ Running
  /\ shutdownPc = "stop"
  /\ seen \in {"nil", HTTPServer}
  /\ IF seen = "nil"
     THEN /\ panicked' = TRUE
          /\ UNCHANGED <<shutdownPc, HTTPServer>>
     ELSE /\ HTTPServer' = "shutdown"
          /\ shutdownPc' = "shutdown"
          /\ UNCHANGED panicked
  /\ UNCHANGED <<mainPc, quiteSignal, done, ctxDone, rvars>>

\* Shutdown returns, when no request is in flight or after
\* DefaultTimeOutForGracefulShutDown, and Stop returns.
StopReturn ==
  /\ Running
  /\ shutdownPc = "shutdown"
  /\ shutdownPc' = "close"
  /\ UNCHANGED <<mainPc, quiteSignal, done, ctxDone, HTTPServer, panicked, rvars>>

\* close(done) in GracefulShutdown; the goroutine ends.
CloseDone ==
  /\ Running
  /\ shutdownPc = "close"
  /\ done' = done + 1
  /\ shutdownPc' = "end"
  /\ UNCHANGED <<mainPc, quiteSignal, ctxDone, HTTPServer, panicked, rvars>>

\* The server accepts a request while it listens.
Accept == Running /\ HTTPServer = "listening"

\* The steps of main from server.Start to its end.
Main ==
  \/ StartBlocking
  \/ \E ok \in BOOLEAN : ListenAndServe(ok)
  \/ ServeReturn
  \/ ReceiveDone
  \/ Cancel
  \/ Wait

\* The steps of the goroutine that runs Server.GracefulShutdown.
GracefulShutdown ==
  \/ ReceiveSignal
  \/ \E seen \in {"nil", "new", "listening", "failed"} : Stop(seen)
  \/ StopReturn
  \/ CloseDone

\* The process, the signals it gets and the requests it serves: a request is
\* accepted while the server listens, and a request in flight goes on while
\* the process runs.
NextMain ==
  \/ Signal
  \/ Main
  \/ GracefulShutdown
  \/ \E ok \in BOOLEAN : Accept /\ TaskCreate(ScenarioCreate, ok) /\ UNCHANGED xvars
  \/ \E p \in Procs : Accept /\ TaskListEnter(p, NoValues) /\ UNCHANGED xvars
  \/ \E p \in Procs, ok \in BOOLEAN : Running /\ TaskListCount(p, ok) /\ UNCHANGED xvars
  \/ \E p \in Procs, ok \in BOOLEAN : Running /\ TaskListSelect(p, ok) /\ UNCHANGED xvars

SpecMain == InitMain /\ [][NextMain]_vars

\* The same with a scheduler that lets main and the goroutine take the steps
\* they are able to take; whether a signal arrives is up to the environment.
SpecMainFair == SpecMain /\ WF_vars(Main) /\ WF_vars(GracefulShutdown)

\* ------------------------------------------------------------------ claims
Mutations == {"Create", "Update", "Delete"}

\* The rows of the table that have the value the query's filter gives for
\* status, title and assignee.
Wanted(query) ==
  { id \in DOMAIN tasks :
      /\ "status" \in DOMAIN query.Filter => tasks[id].status = query.Filter["status"]
      /\ "title" \in DOMAIN query.Filter => tasks[id].title = query.Filter["title"]
      /\ "assignee_id" \in DOMAIN query.Filter
           => query.Filter["assignee_id"] = (IF tasks[id].assignee_id = 5 THEN "5" ELSE "6") }

\* The number of rows a page of the query holds when total rows are wanted.
PageLen(query, total) ==
  IF total <= (query.Page - 1) * query.PerPage THEN 0
  ELSE IF total - (query.Page - 1) * query.PerPage < query.PerPage
       THEN total - (query.Page - 1) * query.PerPage
  ELSE query.PerPage

\* The listing that returned last gave rows and total of the table as it is
\* now: a page of distinct wanted rows, and their number (the total, unless a
\* mutation committed after the COUNT).  The table is still the one the SELECT
\* read: a later commit would be the operation that returned last.
FromStore ==
  /\ Len(last.tasks) = PageLen(last.query, Cardinality(Wanted(last.query)))
  /\ \A i \in 1..Len(last.tasks) :
       /\ last.tasks[i].id \in Wanted(last.query)
       /\ last.tasks[i] = tasks[last.tasks[i].id]
       /\ \A j \in 1..Len(last.tasks) : i # j => last.tasks[i].id # last.tasks[j].id
  /\ ~last.stale => last.total = Cardinality(Wanted(last.query))

\* C1: cache hit short-circuit.  A listing of Q that begins when the last
\* successful listing was of the same Q and no mutation has committed since
\* runs no statement on the task store, and returns the tasks and the total
\* that earlier listing returned.
C1_CacheHitShortCircuit ==
  [][\A p \in Procs :
       (pc[p] # "idle" /\ pc'[p] = "idle" /\ req[p].prior = "listed")
         => /\ last'.storeOps = <<>>
            /\ (last.op = "List" /\ last.err = NoErr /\ last.query = req[p].query)
                 => (last'.err = NoErr /\ last'.tasks = last.tasks /\ last'.total = last.total)]_vars

C9_FailedMutationLeavesCache ==
  (last.op \in Mutations /\ last.storeErr # NoErr)
    => /\ last.err = last.storeErr
       /\ last.task = Nil
       /\ last.cacheOps = <<>>
       /\ \A k \in DOMAIN last.cacheBefore : k \in DOMAIN cache /\ cache[k] = last.cacheBefore[k]

\* After a successful listing, a Delete of an id without a row returned
\* ErrTaskNotFound.
C9_Witness ==
  /\ last.op = "Delete" /\ last.storeErr = ErrTaskNotFound /\ last.err = ErrTaskNotFound
  /\ prev.state = "listed"

\* C10: store-failure propagation on listing.  When a statement of the listing
\* fails, List returns that error with no task and total 0, and writes no
\* cache entry.
C10_ListStoreFailure ==
  (last.op = "List" /\ last.storeErr # NoErr)
    => /\ last.err = last.storeErr
       /\ last.tasks = <<>> /\ last.total = 0
       /\ last.cacheOps = <<>>
       /\ cache = last.cacheBefore

\* The SELECT of a listing failed after its COUNT succeeded on a table that
\* holds a task.
C10_Witness ==
  /\ last.op = "List" /\ last.storeOps = <<"COUNT", "SELECT">>
  /\ last.storeErr = ErrDB /\ last.err = ErrDB
  /\ DOMAIN tasks # {}

\* C14: Delete and NotFound.  A Delete of an id that has a row succeeds (when
\* its statement runs) and removes that row and no other; a Delete of an id
\* that has no row, a second Delete of the same id included, returns
\* ErrTaskNotFound and leaves the table as it was.
C14_DeleteAndNotFound ==
  [][(last'.op = "Delete" /\ pc' = pc)
       => /\ last'.err \in {NoErr, ErrTaskNotFound, ErrDB}
          /\ last'.err = NoErr
               => /\ last'.id \in DOMAIN tasks
                  /\ DOMAIN tasks' = DOMAIN tasks \ {last'.id}
                  /\ \A i \in DOMAIN tasks' : tasks'[i] = tasks[i]
          /\ last'.err # NoErr => tasks' = tasks
          /\ last'.err = ErrTaskNotFound => last'.id \notin DOMAIN tasks
          /\ (last'.id \notin DOMAIN tasks /\ last'.err # ErrDB)
               => last'.err = ErrTaskNotFound]_vars

\* A Delete of an id whose row an earlier Delete removed returned
\* ErrTaskNotFound.
C14_Witness ==
  /\ last.op = "Delete" /\ last.err = ErrTaskNotFound
  /\ last.id < nextID /\ last.id \notin DOMAIN tasks

\* C18: offset pagination.  A listing of a table at rest with filter F, page
\* P >= 1 and size S >= 1 returns as total the number of tasks that have the
\* value F gives for every field of F, and as tasks S of them, each once, after
\* the first (P-1)*S of them: fewer when fewer are left, never more than S.
C18_OffsetPagination ==
  (last.op = "List" /\ last.err = NoErr)
    => /\ last.total = Cardinality(Wanted(last.query))
       /\ Len(last.tasks) <= last.query.PerPage
       /\ Len(last.tasks) = PageLen(last.query, last.total)
       /\ \A i \in 1..Len(last.tasks) :
            /\ last.tasks[i].id \in Wanted(last.query)
            /\ last.tasks[i] = tasks[last.tasks[i].id]
            /\ \A j \in 1..Len(last.tasks) : i # j => last.tasks[i] # last.tasks[j]

\* Of a table of three tasks two have the title and the assignee of the
\* filter: their first page of two holds both, and the total is two.
C18_Witness ==
  /\ last.op = "List" /\ last.err = NoErr
  /\ DOMAIN last.query.Filter = {"title", "assignee_id"}
  /\ last.query.Page = 1 /\ last.query.PerPage = 2
  /\ Cardinality(DOMAIN tasks) = 3
  /\ last.total = 2 /\ Len(last.tasks) = 2

\* The answer to the last request is a listing of exactly the tasks that have
\* the titles, in this order, with their number as total.
ListingOf(titles) ==
  /\ resp.op = "TaskList" /\ resp.status = StatusOK
  /\ resp.body.Meta.Total = Len(titles)
  /\ Len(resp.body.Data) = Len(titles)
  /\ \A i \in 1..Len(titles) : resp.body.Data[i].title = titles[i]

\* C13: the end-to-end scenario.  From the empty table: after the create of
\* T1 the listing of page 1, size 20 returns T1 and total 1; the same listing
\* again returns the same and runs no statement on the task store; after the
\* update of the title to T2 the listing returns T2 and total 1; after the
\* delete the listing returns no task and total 0.
C13_EndToEnd ==
  /\ scn = 2 => ListingOf(<<"T1">>)
  /\ scn = 3 => (ListingOf(<<"T1">>) /\ last.storeOps = <<>>)
  /\ scn = 5 => ListingOf(<<"T2">>)
  /\ scn = 7 => ListingOf(<<>>)

\* The service operation each handler calls.
ServiceOp(op) ==
  IF op = "TaskCreate" THEN "Create"
  ELSE IF op = "TaskUpdate" THEN "Update"
  ELSE IF op = "TaskDelete" THEN "Delete"
  ELSE IF op = "TaskGetByID" THEN "GetByID"
  ELSE "List"

\* C15: boundary error mapping.  Whenever a handler has answered after a call
\* of the service, the service returned the store's error unchanged; the
\* answer to ErrTaskNotFound is 404, the answer to every other error is 500,
\* both with the status fail; the answer to success is a 2xx.
C15_BoundaryErrorMapping ==
  (resp.op # "none" /\ resp.status # StatusBadRequest)
    => /\ last.op = ServiceOp(resp.op)
       /\ last.err = last.storeErr
       /\ last.err = ErrTaskNotFound
            => (resp.status = StatusNotFound /\ resp.body.Status = Fail)
       /\ last.err \notin {NoErr, ErrTaskNotFound}
            => (resp.status = StatusInternalServerError /\ resp.body.Status = Fail)
       /\ last.err = NoErr
            => resp.status \in {StatusOK, StatusCreated, StatusNoContent}

\* A PUT for an id without a row was answered 404.
C15_Witness ==
  /\ resp.op = "TaskUpdate" /\ resp.status = StatusNotFound
  /\ last.op = "Update" /\ last.storeErr = ErrTaskNotFound

\* A body that lacks a required field of a POST, or whose status is none of
\* the four.
InvalidCreate(body) ==
  \/ body.title = ""
  \/ body.assignee_id = 0
  \/ body.status \notin {"", "pending", "in_progress", "done", "canceled"}

\* The same for a PUT, where the status is required.
InvalidUpdate(body) ==
  \/ body.title = ""
  \/ body.assignee_id = 0
  \/ body.status \notin {"pending", "in_progress", "done", "canceled"}

\* C16: validation before any store access.  A POST or PUT whose body lacks a
\* required field or has a status that is none of pending, in_progress, done,
\* canceled is answered 400 in a step that leaves the service, the table and
\* the cache as they were.
C16_ValidationFirst ==
  [][/\ (resp'.op = "TaskCreate" /\ InvalidCreate(resp'.request))
          => (resp'.status = StatusBadRequest /\ UNCHANGED svars)
     /\ (resp'.op = "TaskUpdate" /\ InvalidUpdate(resp'.request.body))
          => (resp'.status = StatusBadRequest /\ UNCHANGED svars)]_vars

\* A POST with the status urgent was answered 400 while the table holds a task.
C16_Witness ==
  /\ resp.op = "TaskCreate" /\ resp.status = StatusBadRequest
  /\ resp.request.status = "urgent"
  /\ DOMAIN tasks # {}

\* C17: default status.  A POST without a status, with its required fields,
\* is not rejected; when the INSERT succeeds the task is in the table and in
\* the answer with the status pending.
C17_DefaultStatus ==
  (/\ resp.op = "TaskCreate"
   /\ resp.request.status = "" /\ resp.request.title # "" /\ resp.request.assignee_id # 0)
    => /\ resp.status \in {StatusCreated, StatusInternalServerError}
       /\ resp.status = StatusCreated
            => /\ resp.body.Data.status = "pending"
               /\ resp.body.Data.id \in DOMAIN tasks
               /\ tasks[resp.body.Data.id].status = "pending"
               /\ tasks[resp.body.Data.id].title = resp.request.title

\* A POST without a status was answered 201 with a pending task.
C17_Witness ==
  /\ resp.op = "TaskCreate" /\ resp.status = StatusCreated
  /\ resp.request.status = ""
  /\ resp.body.Data.status = "pending"

\* C19: pagination bounds.  The Query of every listing the HTTP layer has
\* handed to the service has a page >= 1 and a page size >= 1; without a page
\* parameter the page is 1, without a per_page parameter the size is 20.
C19_PaginationBounds ==
  \A p \in Procs :
    pc[p] # "idle"
      => /\ req[p].query.Page >= 1
         /\ req[p].query.PerPage >= 1
         /\ "page" \notin DOMAIN hreq[p] => req[p].query.Page = 1
         /\ "per_page" \notin DOMAIN hreq[p] => req[p].query.PerPage = 20

\* The pages that hold total tasks at perPage tasks a page.
PagesFor(total, perPage) == (total + perPage - 1) \div perPage

\* C20: listing response meta.  A 200 answer of GET /api/tasks has in its
\* meta the page and the per_page of the query, the total the store counted,
\* and as total_pages the pages that hold total tasks at per_page a page.
C20_ListingMeta ==
  (resp.op = "TaskList" /\ resp.status = StatusOK)
    => /\ resp.body.Meta.Page = last.query.Page
       /\ resp.body.Meta.PerPage = last.query.PerPage
       /\ resp.body.Meta.Total = last.total
       /\ resp.body.Meta.TotalPages = PagesFor(last.total, last.query.PerPage)

\* C21: Create result.  A Create that succeeds returns the task with the
\* title, description, status and assignee of the task it was given; its ID
\* is not 0, is the ID of no task that was in the table, whatever ID the given
\* task carried, and the table holds the returned task under that ID, next to
\* the tasks it held.
C21_CreateResult ==
  [][(last'.op = "Create" /\ last'.err = NoErr)
       => /\ call'.op = "Create"
          /\ last'.task # Nil
          /\ last'.task[1].title = call'.task.title
          /\ last'.task[1].description = call'.task.description
          /\ last'.task[1].status = call'.task.status
          /\ last'.task[1].assignee_id = call'.task.assignee_id
          /\ last'.task[1].id # 0
          /\ last'.task[1].id \notin DOMAIN tasks
          /\ DOMAIN tasks' = DOMAIN tasks \cup {last'.task[1].id}
          /\ tasks'[last'.task[1].id] = last'.task[1]
          /\ \A i \in DOMAIN tasks : tasks'[i] = tasks[i]]_vars

\* A Create given a task that carries the ID of a task in the table returned
\* a task with another ID, and both are in the table.
C21_Witness ==
  /\ call.op = "Create" /\ last.op = "Create" /\ last.err = NoErr
  /\ call.task.id # last.task[1].id
  /\ {call.task.id, last.task[1].id} \subseteq DOMAIN tasks

\* C22: Update frame.  An Update of a task that has a row succeeds (when its
\* statement runs) and returns that row as it is afterwards: the title is the
\* requested one, the ID and created-at are as before, updated-at is later
\* than before, each of description, status and assignee whose requested value
\* is the row's value is as before, and every other row is as before.  An
\* Update of an ID without a row returns ErrTaskNotFound and leaves the table
\* as it was.
C22_UpdateFrame ==
  [][(last'.op = "Update" /\ call'.op = "Update")
       => LET id == call'.task.id
          IN  /\ last'.err \in {NoErr, ErrTaskNotFound, ErrDB}
              /\ last'.err = NoErr
                   => /\ id \in DOMAIN tasks
                      /\ DOMAIN tasks' = DOMAIN tasks
                      /\ last'.task = <<tasks'[id]>>
                      /\ tasks'[id].title = call'.task.title
                      /\ tasks'[id].id = id
                      /\ tasks'[id].created_at = tasks[id].created_at
                      /\ tasks'[id].updated_at > tasks[id].updated_at
                      /\ \A f \in {"description", "status", "assignee_id"} :
                           call'.task[f] = tasks[id][f] => tasks'[id][f] = tasks[id][f]
                      /\ \A i \in DOMAIN tasks \ {id} : tasks'[i] = tasks[i]
              /\ last'.err # NoErr => (tasks' = tasks /\ last'.task = Nil)
              /\ last'.err = ErrTaskNotFound => id \notin DOMAIN tasks
              /\ (id \notin DOMAIN tasks /\ last'.err # ErrDB)
                   => last'.err = ErrTaskNotFound]_vars

\* An Update changed the title of one of two tasks and kept its description,
\* status and assignee.
C22_Witness ==
  /\ call.op = "Update" /\ last.op = "Update" /\ last.err = NoErr
  /\ Cardinality(DOMAIN tasks) = 2
  /\ last.task[1].title = call.task.title
  /\ last.task[1].created_at < last.task[1].updated_at

\* C23: update applies every field of the request.  After a PUT /api/tasks/:id
\* that was answered 200 the row of that id has the title, the description,
\* the status and the assignee of the request, and so has the task of the
\* answer.
C23_UpdateAppliesEveryField ==
  (resp.op = "TaskUpdate" /\ resp.status = StatusOK)
    => LET id == Atoi(resp.request.id).n
       IN  /\ id \in DOMAIN tasks
           /\ \A f \in {"title", "description", "status", "assignee_id"} :
                /\ tasks[id][f] = resp.request.body[f]
                /\ resp.body.Data[f] = resp.request.body[f]

\* C25: filter fields are restricted.  The filter of every Query the HTTP
\* layer has handed to the service has no field but title, status and
\* assignee_id, whatever parameters the request carried.
C25_FilterFieldsRestricted ==
  \A p \in Procs :
    pc[p] # "idle" => DOMAIN req[p].query.Filter \subseteq {"title", "status", "assignee_id"}

\* C26: point reads are never cached.  A GetByID runs its SELECT on the task
\* store and makes no call of the cache; it returns the row the table holds
\* for the id, so after an Update the updated task, and ErrTaskNotFound when
\* the table holds no row for the id, so after a Delete.
C26_PointReadsNotCached ==
  (last.op = "GetByID" /\ call.op = "GetByID")
    => /\ last.id = call.id
       /\ last.storeOps = <<"SELECT">>
       /\ last.cacheOps = <<>>
       /\ last.err \in {NoErr, ErrTaskNotFound, ErrDB}
       /\ last.err = NoErr => (call.id \in DOMAIN tasks /\ last.task = <<tasks[call.id]>>)
       /\ last.err # NoErr => last.task = Nil
       /\ last.err = ErrTaskNotFound => call.id \notin DOMAIN tasks
       /\ (call.id \notin DOMAIN tasks /\ last.err # ErrDB) => last.err = ErrTaskNotFound

\* A GetByID returned a task that an Update had changed, with the title and
\* the updated-at the Update gave it, next to another task.
C26_Witness ==
  /\ last.op = "GetByID" /\ call.op = "GetByID" /\ last.err = NoErr
  /\ last.task[1].updated_at > last.task[1].created_at
  /\ last.task[1].updated_at = clock
  /\ Cardinality(DOMAIN tasks) = 2

\* C27: listing snapshot consistency.  Whatever Create and Delete run while
\* a listing is in flight, the tasks and the total it returns are those of one
\* state of the table: it returns no more tasks than its total, and as many
\* as a table with total matching tasks has on that page.
C27_ListingSnapshot ==
  (last.op = "List" /\ last.err = NoErr)
    => /\ Len(last.tasks) <= last.total
       /\ Len(last.tasks) = PageLen(last.query, last.total)

\* The ids of the tasks of a page.
PageIDs(page) == { page[i].id : i \in 1..Len(page) }

\* C28: pages partition the result.  When the listing of page 2 of a filter
\* returns right after the listing of page 1 of the same filter and size, on
\* a table at rest, no task is on both pages, and when the total is no more
\* than two pages hold, every matching task is on one of them.
C28_PagesPartition ==
  [][(/\ last.op = "List" /\ last.err = NoErr /\ last.query.Page = 1
      /\ last'.op = "List" /\ last'.err = NoErr /\ last'.query.Page = 2
      /\ last'.query.Filter = last.query.Filter
      /\ last'.query.PerPage = last.query.PerPage
      /\ \E p \in Procs : pc[p] = "counted" /\ pc'[p] = "idle")
       => /\ PageIDs(last.tasks) \cap PageIDs(last'.tasks) = {}
          /\ Len(last.tasks) + Len(last'.tasks) = Cardinality(PageIDs(last.tasks) \cup PageIDs(last'.tasks))
          /\ last.total <= 2 * last.query.PerPage
               => PageIDs(last.tasks) \cup PageIDs(last'.tasks) = Wanted(last.query)]_vars

\* C29: shutdown ordering.  main is at its end only when the goroutine has
\* received a quit signal and Stop has returned; done is closed at most once,
\* only after Stop has returned, and once when main is at its end; the main
\* context is cancelled only when done is closed.
C29_ShutdownOrdering ==
  /\ done <= 1
  /\ done = 1 => shutdownPc = "end"
  /\ shutdownPc \in {"close", "end"} => HTTPServer = "shutdown"
  /\ ctxDone => done = 1
  /\ mainPc = "end" => (shutdownPc = "end" /\ done = 1 /\ ctxDone)

\* main is at its end after the server served a request and was shut down.
C29_Witness ==
  /\ mainPc = "end" /\ ctxDone /\ done = 1
  /\ HTTPServer = "shutdown"
  /\ resp.op = "TaskCreate" /\ resp.status = StatusCreated

\* C30: termination after the server stops.  Whenever StartBlocking has
\* returned, through a shutdown or because the server failed to listen, main
\* comes to its end (or the process ends), whether or not another signal
\* arrives.
C30_TerminationAfterStop ==
  (mainPc = "waitDone") ~> (mainPc = "end" \/ panicked)
====
